---- MODULE Spec2Model ----
(***************************************************************************)
(* Model of backend/server.py: the POST /explain-word handler              *)
(* (explain_word), its request/response models, the LlmChat capability it  *)
(* addresses through get_ai_chat(), and the poets/poems collections the    *)
(* other routes write.                                                     *)
(*                                                                         *)
(* A Python str is a sequence of one-character strings.  The fixed pieces  *)
(* of text in the f-string templates (labels, instruction sentences, the   *)
(* eight-space indentation) are single tokens; "\n" is the token NL.       *)
(***************************************************************************)
EXTENDS Integers, Sequences, FiniteSets, TLC

(* ------------------------------ bounds -------------------------------- *)

\* number of POST /explain-word requests a behaviour holds
NCalls == 2
\* longest word / poem_title explored when the prompt is checked exhaustively
MaxLen == 2
\* documents a collection may hold before the store routes stop inserting
MaxDocs == 2

Calls == 1..NCalls

(* ------------------------------ text ---------------------------------- *)

\* Python None / an absent JSON field: a one-element value whose element is
\* no character, so it differs from every str
None == <<"%None">>

NL == "\n"
\* the eight spaces that indent the body of the triple-quoted template
INDENT == "        "
\* the four labels of context_info (Arabic in the source, transliterated)
LABEL_WORD == "al-kalima: "
LABEL_CONTEXT == "as-siyaq: "
LABEL_POEM == "al-qasida: "
LABEL_POET == "ash-shair: "
\* the instruction sentences of the template, one token per source line
ASK_EXPLAIN == "please explain the word in its poetic context. mention:"
ASK_LEXICAL == "1. lexical meaning"
ASK_POETIC == "2. meaning in the poetic context"
ASK_RHETORIC == "3. rhetorical or literary references"
ASK_SHORT == "keep it short and clear (at most 150 words)."

Labels == {LABEL_WORD, LABEL_CONTEXT, LABEL_POEM, LABEL_POET}

\* session_id and system_message of get_ai_chat()
SESSION_ID == "poetry_explanation"
SYSTEM_MESSAGE == "expert in Arabic poetry"
\* the prefix of the HTTPException detail
ERROR_PREFIX == "explain-word error: "

\* Python truthiness of an Optional[str]: None and "" are falsy
Truthy(v) == v # None /\ v # <<>>

\* pydantic's check of a field declared `str`
IsStr(v) == v # None

\* a prompt builder that writes the two optional lines unconditionally
ContextInfo_placeholder(req) ==
    <<LABEL_WORD>> \o req.word \o <<NL>>
    \o <<LABEL_CONTEXT>> \o req.context \o <<NL>>
    \o <<LABEL_POEM>> \o (IF req.poem_title = None THEN <<>> ELSE req.poem_title) \o <<NL>>
    \o <<LABEL_POET>> \o (IF req.poet_name = None THEN <<>> ELSE req.poet_name) \o <<NL>>

\* explain_word, lines 146-151: the labelled lines
ContextInfo(req) ==
    <<LABEL_WORD>> \o req.word \o <<NL>>
    \o <<LABEL_CONTEXT>> \o req.context \o <<NL>>
    \o (IF Truthy(req.poem_title) THEN <<LABEL_POEM>> \o req.poem_title \o <<NL>> ELSE <<>>)
    \o (IF Truthy(req.poet_name) THEN <<LABEL_POET>> \o req.poet_name \o <<NL>> ELSE <<>>)

\* explain_word, lines 153-162: the triple-quoted template around context_info
PromptTemplate(context_info) ==
    <<NL, INDENT>> \o context_info
    \o <<NL, INDENT,
         NL, INDENT, ASK_EXPLAIN,
         NL, INDENT, ASK_LEXICAL,
         NL, INDENT, ASK_POETIC,
         NL, INDENT, ASK_RHETORIC,
         NL, INDENT,
         NL, INDENT, ASK_SHORT,
         NL, INDENT>>

\* the user prompt of a request (lines 146-162)
UserPrompt(req) == PromptTemplate(ContextInfo(req))

(* --------------------------- data models ------------------------------ *)

WordExplanationRequest(word, context, poem_title, poet_name) ==
    [word |-> word, context |-> context, poem_title |-> poem_title, poet_name |-> poet_name]

NoRequest == WordExplanationRequest(None, None, None, None)

\* pydantic validation of the request body (lines 61-65): word and context
\* must be strings; the two optional fields may be None
RequestValidates(req) == IsStr(req.word) /\ IsStr(req.context)

RECURSIVE StripLeft(_)
StripLeft(s) == IF s # <<>> /\ Head(s) = " " THEN StripLeft(Tail(s)) ELSE s

RECURSIVE StripRight(_)
StripRight(s) ==
    IF s # <<>> /\ s[Len(s)] = " " THEN StripRight(SubSeq(s, 1, Len(s) - 1)) ELSE s

\* str.strip()
Strip(s) == StripLeft(StripRight(s))

\* a response model that normalises the echoed fields
WordExplanation_stripped(word, context, explanation) ==
    [word |-> Strip(word), context |-> Strip(context), explanation |-> explanation]

\* the response model (lines 56-59) as built at lines 168-172
WordExplanation(word, context, explanation) ==
    [word |-> word, context |-> context, explanation |-> explanation]

\* get_ai_chat() (lines 29-34): a new LlmChat under the constant session id
get_ai_chat == [session_id |-> SESSION_ID, system_message |-> SYSTEM_MESSAGE]

\* UserMessage(text=prompt), line 165
UserMessage(text) == [text |-> text]

\* The text the capability generates for a prompt, given the earlier prompts
\* it has retained for the session: an uninterpreted, injective function of
\* both (a free constructor).  A stub that answers "STUB:" + prompt is the
\* instance with ctx = <<>>.
Generate(ctx, text) == [gen |-> text, ctx |-> ctx]

\* str(uuid.uuid4()): a value no earlier document carries
uuid4(n) == [str |-> <<"uuid", n>>]

\* the exceptions chat.send_message can raise
CapabilityErrors == {"TimeoutError", "ProviderError"}

(* ------------------------------ state --------------------------------- *)

VARIABLES
    pc,          \* stage of each explain call
    request,     \* the parsed body of each call (the handler's `request`)
    prompt,      \* the handler's local `prompt`
    response,    \* what `await chat.send_message(...)` delivered to the call
    result,      \* the HTTP response the caller sees
    inflight,    \* messages sent to the capability and not yet answered
    history,     \* per session id: prompts the capability has retained
    retains,     \* whether the capability keeps context per session id
    callCount,   \* per call: capability calls made on its behalf
    poets,       \* db.poets
    poems        \* db.poems

vars == <<pc, request, prompt, response, result, inflight, history, retains,
          callCount, poets, poems>>

explainVars == <<pc, request, prompt, response, result, inflight, history, callCount>>
storeVars == <<poets, poems>>

Pending == [kind |-> "pending"]
NoResult == [kind |-> "none", status |-> 0]

Terminal == {"Succeeded", "Failed"}

(* ------------------------- result records ----------------------------- *)

\* 200 with the response model as body
Ok200(body) == [kind |-> "WordExplanation", status |-> 200, body |-> body]

\* FastAPI's answer to a body that fails pydantic validation; the handler
\* does not run
RequestValidationError == [kind |-> "RequestValidationError", status |-> 422]

\* raise HTTPException(status_code=500, detail=prefix + str(e)), line 174
HTTPException500(e) == [kind |-> "HTTPException", status |-> 500, detail |-> <<ERROR_PREFIX, e>>]

\* an exception that leaves the handler: the server's bare 500
Unhandled(e) == [kind |-> "UnhandledException", status |-> 500, exc |-> e]

\* a handler that catches the timeout only
ExceptException_narrow(e) ==
    IF e = "TimeoutError" THEN HTTPException500(e) ELSE Unhandled(e)

\* `except Exception as e` (lines 173-174): every exception raised in the
\* try block is caught and re-raised as the 500
ExceptException(e) == HTTPException500(e)

(* ----------------------------- inputs --------------------------------- *)

\* request bodies of the service runs: a body without word, an empty word,
\* an empty context, a full request whose fields carry blanks and a capital,
\* and a minimal request whose poem_title is present but empty
Requests ==
    { WordExplanationRequest(None, <<"x">>, None, None),
      WordExplanationRequest(<<>>, <<"x">>, None, None),
      WordExplanationRequest(<<"b">>, <<>>, None, <<"p">>),
      WordExplanationRequest(<<" ", "A">>, <<"x", " ">>, <<"t">>, <<"p">>),
      WordExplanationRequest(<<"b">>, <<"y">>, <<>>, None) }

\* request bodies of the runs that follow the stages of the calls or
\* interleave them with the store routes: one body that fails validation and
\* one valid request
SampleRequests ==
    { WordExplanationRequest(None, <<"x">>, None, None),
      WordExplanationRequest(<<"b">>, <<"y">>, <<"t">>, None) }

(* ------------------------------ Init ---------------------------------- *)

Init ==
    /\ pc = [c \in Calls |-> "idle"]
    /\ request = [c \in Calls |-> NoRequest]
    /\ prompt = [c \in Calls |-> <<>>]
    /\ response = [c \in Calls |-> Pending]
    /\ result = [c \in Calls |-> NoResult]
    /\ inflight = {}
    /\ history = [s \in {SESSION_ID} |-> <<>>]
    /\ retains \in BOOLEAN
    /\ callCount = [c \in Calls |-> 0]
    /\ poets = <<>>
    /\ poems = <<>>

(* ------------------------- explain_word steps -------------------------- *)

\* a POST /explain-word arrives; calls are numbered in arrival order
Receive(c, req) ==
    /\ pc[c] = "idle"
    /\ \A d \in Calls : d < c => pc[d] # "idle"
    /\ pc' = [pc EXCEPT ![c] = "Received"]
    /\ request' = [request EXCEPT ![c] = req]
    /\ UNCHANGED <<prompt, response, result, inflight, history, retains, callCount, storeVars>>

\* FastAPI parses the body into WordExplanationRequest (line 143); a body
\* that does not validate is answered 422 and the handler never runs
Validate(c) ==
    /\ pc[c] = "Received"
    /\ IF RequestValidates(request[c])
       THEN /\ pc' = [pc EXCEPT ![c] = "Validated"]
            /\ UNCHANGED result
       ELSE /\ pc' = [pc EXCEPT ![c] = "Failed"]
            /\ result' = [result EXCEPT ![c] = RequestValidationError]
    /\ UNCHANGED <<request, prompt, response, inflight, history, retains, callCount, storeVars>>

\* lines 146-162
BuildPrompt(c) ==
    /\ pc[c] = "Validated"
    /\ prompt' = [prompt EXCEPT ![c] = UserPrompt(request[c])]
    /\ pc' = [pc EXCEPT ![c] = "PromptBuilt"]
    /\ UNCHANGED <<request, response, result, inflight, history, retains, callCount, storeVars>>

\* the message sent by `await chat.send_message(user_message)`
Message(c, chat, user_message) ==
    [caller |-> c, session_id |-> chat.session_id,
     system_message |-> chat.system_message, text |-> user_message.text]

\* a handler that reads the prompt from a variable shared by all calls
InvokeCapability_sharedPrompt(c) ==
    /\ pc[c] = "PromptBuilt"
    /\ \E d \in Calls :
          /\ pc[d] \notin {"idle", "Received", "Validated"}
          /\ RequestValidates(request[d])
          /\ inflight' = inflight \cup {Message(c, get_ai_chat, UserMessage(prompt[d]))}
    /\ callCount' = [callCount EXCEPT ![c] = @ + 1]
    /\ pc' = [pc EXCEPT ![c] = "CapabilityInvoked"]
    /\ UNCHANGED <<request, prompt, response, result, history, retains, storeVars>>

\* a handler that calls the capability before the prompt is built
InvokeCapability_early(c) ==
    /\ pc[c] = "Validated"
    /\ inflight' = inflight \cup {Message(c, get_ai_chat, UserMessage(prompt[c]))}
    /\ callCount' = [callCount EXCEPT ![c] = @ + 1]
    /\ pc' = [pc EXCEPT ![c] = "CapabilityInvoked"]
    /\ UNCHANGED <<request, prompt, response, result, history, retains, storeVars>>

\* lines 164-166 up to the await
InvokeCapability(c) ==
    /\ pc[c] = "PromptBuilt"
    /\ inflight' = inflight \cup {Message(c, get_ai_chat, UserMessage(prompt[c]))}
    /\ callCount' = [callCount EXCEPT ![c] = @ + 1]
    /\ pc' = [pc EXCEPT ![c] = "CapabilityInvoked"]
    /\ UNCHANGED <<request, prompt, response, result, history, retains, storeVars>>

\* the capability answers one outstanding message with generated text
CapabilityRespond(c) ==
    \E m \in inflight :
       /\ m.caller = c
       /\ response' = [response EXCEPT ![c] =
             [kind |-> "text",
              text |-> Generate(IF retains THEN history[m.session_id] ELSE <<>>, m.text)]]
       /\ history' = IF retains
                     THEN [history EXCEPT ![m.session_id] = Append(@, m.text)]
                     ELSE history
       /\ inflight' = inflight \ {m}
       /\ UNCHANGED <<pc, request, prompt, result, retains, callCount, storeVars>>

\* the capability call raises (timeout, provider/quota/auth error)
CapabilityFail(c) ==
    \E m \in inflight, e \in CapabilityErrors :
       /\ m.caller = c
       /\ response' = [response EXCEPT ![c] = [kind |-> "error", exc |-> e]]
       /\ inflight' = inflight \ {m}
       /\ UNCHANGED <<pc, request, prompt, result, history, retains, callCount, storeVars>>

\* the capability call returns something that is not a str
CapabilityMalformed(c) ==
    \E m \in inflight :
       /\ m.caller = c
       /\ response' = [response EXCEPT ![c] = [kind |-> "notstr"]]
       /\ inflight' = inflight \ {m}
       /\ UNCHANGED <<pc, request, prompt, result, history, retains, callCount, storeVars>>

\* a handler that also stores the explanation it returns
ReturnExplanation_cached(c) ==
    /\ pc[c] = "CapabilityInvoked"
    /\ response[c].kind = "text"
    /\ result' = [result EXCEPT ![c] =
          Ok200(WordExplanation(request[c].word, request[c].context, response[c].text))]
    /\ poems' = Append(poems, [id |-> uuid4(c), explanation |-> response[c].text])
    /\ pc' = [pc EXCEPT ![c] = "Succeeded"]
    /\ UNCHANGED <<request, prompt, response, inflight, history, retains, callCount, poets>>

\* lines 168-172: the await returned a str
ReturnExplanation(c) ==
    /\ pc[c] = "CapabilityInvoked"
    /\ response[c].kind = "text"
    /\ result' = [result EXCEPT ![c] =
          Ok200(WordExplanation(request[c].word, request[c].context, response[c].text))]
    /\ pc' = [pc EXCEPT ![c] = "Succeeded"]
    /\ UNCHANGED <<request, prompt, response, inflight, history, retains, callCount, storeVars>>

\* the exception the try block raises once the await is over: the error
\* send_message raised, or pydantic's ValidationError when WordExplanation is
\* given an explanation that is not a str
Raised(c) == IF response[c].kind = "error" THEN response[c].exc ELSE "ValidationError"

\* a handler that sends the message again after a failure
RaiseHTTPException_retry(c) ==
    /\ pc[c] = "CapabilityInvoked"
    /\ response[c].kind \in {"error", "notstr"}
    /\ IF callCount[c] < 2
       THEN /\ inflight' = inflight \cup {Message(c, get_ai_chat, UserMessage(prompt[c]))}
            /\ callCount' = [callCount EXCEPT ![c] = @ + 1]
            /\ response' = [response EXCEPT ![c] = Pending]
            /\ UNCHANGED <<pc, result>>
       ELSE /\ result' = [result EXCEPT ![c] = ExceptException(Raised(c))]
            /\ pc' = [pc EXCEPT ![c] = "Failed"]
            /\ UNCHANGED <<inflight, callCount, response>>
    /\ UNCHANGED <<request, prompt, history, retains, storeVars>>

\* lines 173-174
RaiseHTTPException(c) ==
    /\ pc[c] = "CapabilityInvoked"
    /\ response[c].kind \in {"error", "notstr"}
    /\ result' = [result EXCEPT ![c] = ExceptException(Raised(c))]
    /\ pc' = [pc EXCEPT ![c] = "Failed"]
    /\ UNCHANGED <<request, prompt, response, inflight, history, retains, callCount, storeVars>>

\* one step of call c of POST /explain-word, its body drawn from reqs
ExplainStep(c, reqs) ==
    \/ \E req \in reqs : Receive(c, req)
    \/ Validate(c)
    \/ BuildPrompt(c)
    \/ InvokeCapability(c)
    \/ CapabilityRespond(c)
    \/ CapabilityFail(c)
    \/ CapabilityMalformed(c)
    \/ ReturnExplanation(c)
    \/ RaiseHTTPException(c)

Next == \E c \in Calls : ExplainStep(c, Requests)

Spec == Init /\ [][Next]_vars

\* the steps the handler of call c takes by itself
HandlerStep(c) ==
    \/ Validate(c)
    \/ BuildPrompt(c)
    \/ InvokeCapability(c)
    \/ ReturnExplanation(c)
    \/ RaiseHTTPException(c)

\* the capability settles an outstanding message of call c
CapabilityStep(c) ==
    \/ CapabilityRespond(c)
    \/ CapabilityFail(c)
    \/ CapabilityMalformed(c)

\* The event loop resumes every handler that can run, and the capability
\* answers (or fails) every message it was sent.
Fairness ==
    \A c \in Calls : WF_vars(HandlerStep(c)) /\ WF_vars(CapabilityStep(c))

FairNext == \E c \in Calls : ExplainStep(c, SampleRequests)

FairSpec == Init /\ [][FairNext]_vars /\ Fairness

(* --------------------------- record store ------------------------------ *)

\* prepare_for_mongo (lines 75-80): datetime values become ISO strings
prepare_for_mongo(data) ==
    [k \in DOMAIN data |->
        IF "datetime" \in DOMAIN data[k] THEN [iso |-> data[k].datetime] ELSE data[k]]

\* bodies of POST /poets and POST /poems
PoetInputs == { [id |-> [str |-> "p1"], name |-> [str |-> "n1"]] }
PoemInputs == { [id |-> [str |-> "m1"], poet_id |-> [str |-> "p1"],
                 created_at |-> [datetime |-> 1]] }

\* create_poet (lines 110-114)
create_poet(poet) ==
    /\ Len(poets) < MaxDocs
    /\ poets' = Append(poets, prepare_for_mongo(poet))
    /\ UNCHANGED <<explainVars, retains, poems>>

\* create_poem (lines 135-139)
create_poem(poem) ==
    /\ Len(poems) < MaxDocs
    /\ poems' = Append(poems, prepare_for_mongo(poem))
    /\ UNCHANGED <<explainVars, retains, poets>>

\* init_sample_data (lines 195-251): two poets and their two poems
init_sample_data ==
    /\ Len(poets) + 2 <= MaxDocs
    /\ Len(poems) + 2 <= MaxDocs
    /\ LET p1 == uuid4(Len(poets) + 1)
           p2 == uuid4(Len(poets) + 2)
       IN /\ poets' = poets \o << [id |-> p1, name |-> [str |-> "al-Mutanabbi"]],
                                  [id |-> p2, name |-> [str |-> "Imru al-Qays"]] >>
          /\ poems' = poems \o << [id |-> uuid4(Len(poems) + 1), poet_id |-> p1],
                                  [id |-> uuid4(Len(poems) + 2), poet_id |-> p2] >>
    /\ UNCHANGED <<explainVars, retains>>

StoreNext ==
    \/ \E c \in Calls : ExplainStep(c, SampleRequests)
    \/ \E poet \in PoetInputs : create_poet(poet)
    \/ \E poem \in PoemInputs : create_poem(poem)
    \/ init_sample_data

StoreSpec == Init /\ [][StoreNext]_vars

(* ------------------------ prompt builder runs -------------------------- *)

PromptChars == {"a", NL, LABEL_POEM}

\* every str of at most n characters
Str(n) == UNION { [1..k -> PromptChars] : k \in 0..n }

PromptRequests ==
    { WordExplanationRequest(w, x, t, p) :
        w \in Str(MaxLen) \cup {None}, x \in Str(1) \cup {None},
        t \in Str(MaxLen) \cup {None}, p \in Str(1) \cup {None} }

\* call 1 has been received with any body of PromptRequests
PromptInit ==
    /\ \E req \in PromptRequests :
          request = [c \in Calls |-> IF c = 1 THEN req ELSE NoRequest]
    /\ pc = [c \in Calls |-> IF c = 1 THEN "Received" ELSE "idle"]
    /\ prompt = [c \in Calls |-> <<>>]
    /\ response = [c \in Calls |-> Pending]
    /\ result = [c \in Calls |-> NoResult]
    /\ inflight = {}
    /\ history = [s \in {SESSION_ID} |-> <<>>]
    /\ retains = FALSE
    /\ callCount = [c \in Calls |-> 0]
    /\ poets = <<>>
    /\ poems = <<>>

PromptNext == \E c \in Calls : Validate(c) \/ BuildPrompt(c)

PromptSpec == PromptInit /\ [][PromptNext]_vars

(* ======================= properties of the service ===================== *)

\* the request of call c has been received
Arrived(c) == pc[c] # "idle"

\* C1: a successful explain returns the request's word and context verbatim
\* (blanks and capitals kept); only the explanation comes from the capability.
C1_EchoVerbatim ==
    \A c \in Calls :
       (pc[c] = "Succeeded" /\ request[c].word # <<>> /\ request[c].context # <<>>)
       => /\ result[c].kind = "WordExplanation"
          /\ result[c].body.word = request[c].word
          /\ result[c].body.context = request[c].context
          /\ result[c].body.explanation = response[c].text

C1_Witness ==
    \E c \in Calls :
       /\ pc[c] = "Succeeded"
       /\ request[c].word = <<" ", "A">>
       /\ request[c].context = <<"x", " ">>

\* C2: a request whose word or context is the empty string is refused as an
\* invalid request and the capability is never called for it.
C2_EmptyRefused ==
    \A c \in Calls :
       (Arrived(c) /\ (request[c].word = <<>> \/ request[c].context = <<>>))
       => /\ callCount[c] = 0
          /\ pc[c] \notin {"CapabilityInvoked", "Succeeded"}

\* C3: when the capability call fails, explain ends in the error that carries
\* the cause, never in a WordExplanation, and the exception does not leave the
\* handler uncaught.
C3_FailureTranslated ==
    \A c \in Calls :
       response[c].kind = "error"
       => /\ pc[c] # "Succeeded"
          /\ result[c].kind \notin {"WordExplanation", "UnhandledException"}
          /\ pc[c] = "Failed"
             => /\ result[c].kind = "HTTPException"
                /\ result[c].status = 500
                /\ result[c].detail = <<ERROR_PREFIX, response[c].exc>>

C3_Witness ==
    \E c \in Calls :
       /\ pc[c] = "Failed"
       /\ response[c].kind = "error"
       /\ response[c].exc = "ProviderError"

\* C4: whatever the interleaving, the explanation a call returns was generated
\* from the prompt of its own request, never from the prompt of a call with
\* another word.
C4_OwnExplanation ==
    \A c \in Calls :
       pc[c] = "Succeeded"
       => /\ result[c].body.explanation.gen = UserPrompt(request[c])
          /\ \A d \in Calls :
                (Arrived(d) /\ request[d].word # request[c].word)
                => result[c].body.explanation.gen # UserPrompt(request[d])

\* a later call has returned while an earlier call with another word still
\* holds its reply
C4_Witness ==
    \E c, d \in Calls :
       /\ d < c
       /\ pc[c] = "Succeeded"
       /\ pc[d] = "CapabilityInvoked"
       /\ response[d].kind = "text"
       /\ request[d].word # request[c].word

\* C5: the text a call returns does not depend on the prompts of other explain
\* calls: it is the text generated from the call's own prompt with no retained
\* context.
C5_NoCrossCallContext ==
    \A c \in Calls :
       (pc[c] = "Succeeded" /\ request[c].word # <<>> /\ request[c].context # <<>>)
       => result[c].body.explanation = Generate(<<>>, UserPrompt(request[c]))

\* C6: a call that reaches the capability calls it exactly once: no retry after
\* a failure, no answer without a call; a finished call has made one capability
\* call if its body validated and none otherwise.
C6_ExactlyOneCall ==
    \A c \in Calls :
       /\ callCount[c] <= 1
       /\ pc[c] \in {"CapabilityInvoked", "Succeeded"} => callCount[c] = 1
       /\ pc[c] = "Failed"
          => callCount[c] = (IF RequestValidates(request[c]) THEN 1 ELSE 0)
       /\ pc[c] \in {"idle", "Received", "Validated", "PromptBuilt"} => callCount[c] = 0

C6_Witness ==
    \E c, d \in Calls :
       /\ pc[c] = "Failed" /\ response[c].kind = "error"
       /\ pc[d] = "Failed" /\ ~RequestValidates(request[d])

\* the client-class statuses
ClientError == 400..499

\* the error kind of the taxonomy a finished call falls under
ErrorKindOf(c) ==
    IF ~RequestValidates(request[c]) \/ request[c].word = <<>> \/ request[c].context = <<>>
    THEN "InvalidRequest"
    ELSE IF response[c].kind = "error" THEN "GenerationFailed"
    ELSE IF pc[c] = "Failed" THEN "Unexpected"
    ELSE "none"

\* C8: the caller can tell the error kinds apart: an invalid request ends in a
\* client-class error, and two finished calls of different error kinds never
\* show the same status.
C8_KindsDistinguishable ==
    \A c \in Calls :
       pc[c] \in Terminal
       => /\ ErrorKindOf(c) = "InvalidRequest" => result[c].status \in ClientError
          /\ \A d \in Calls :
                (pc[d] \in Terminal /\ ErrorKindOf(d) # ErrorKindOf(c))
                => result[d].status # result[c].status

\* the stage that follows each stage of the pipeline
NextStage(stage) ==
    CASE stage = "idle" -> "Received"
      [] stage = "Received" -> "Validated"
      [] stage = "Validated" -> "PromptBuilt"
      [] stage = "PromptBuilt" -> "CapabilityInvoked"
      [] stage = "CapabilityInvoked" -> "Succeeded"
      [] OTHER -> stage

\* a call stays where it is, moves to the next stage, or fails
StageStep(c) ==
    \/ pc'[c] = pc[c]
    \/ pc'[c] = NextStage(pc[c])
    \/ pc[c] \notin Terminal \cup {"idle"} /\ pc'[c] = "Failed"

\* C9: a call moves through Received, Validated, PromptBuilt, CapabilityInvoked
\* in that order, the capability being called only with the prompt built; once
\* received it ends in Succeeded (with a WordExplanation) or Failed (with an
\* error) and stays there.
C9_Pipeline ==
    /\ [][\A c \in Calls : StageStep(c)]_vars
    /\ [](\A c \in Calls :
            /\ pc[c] = "CapabilityInvoked" => prompt[c] = UserPrompt(request[c])
            /\ pc[c] = "Succeeded" => result[c].kind = "WordExplanation"
            /\ pc[c] = "Failed" => result[c].status >= 400)
    /\ \A c \in Calls : (pc[c] = "Received") ~> (pc[c] \in Terminal)

C9_Witness ==
    \E c, d \in Calls : pc[c] = "Succeeded" /\ pc[d] = "Failed"

\* C10: a step of an explain call leaves poets and poems as they are and
\* touches no other call's request, prompt or result; every message goes out
\* under the one constant session id.
C10_Frame ==
    /\ [][(pc' # pc \/ response' # response \/ inflight' # inflight)
          => /\ poets' = poets
             /\ poems' = poems
             /\ \A d \in Calls :
                   (pc'[d] = pc[d] /\ response'[d] = response[d])
                   => /\ request'[d] = request[d]
                      /\ prompt'[d] = prompt[d]
                      /\ result'[d] = result[d]]_vars
    /\ [](\A m \in inflight : m.session_id = SESSION_ID)

C10_Witness ==
    \E c, d \in Calls :
       /\ pc[c] = "Succeeded"
       /\ pc[d] = "Failed"
       /\ Len(poets) > 0
       /\ Len(poems) > 0

(* ------------------------ the prompt, read back ------------------------ *)

\* index of the first NL of s, 0 when there is none
RECURSIVE FirstNL(_, _)
FirstNL(s, i) ==
    IF i > Len(s) THEN 0 ELSE IF s[i] = NL THEN i ELSE FirstNL(s, i + 1)

\* str.split("\n")
RECURSIVE SplitLines(_)
SplitLines(s) ==
    LET i == FirstNL(s, 1)
    IN IF i = 0 THEN <<s>>
       ELSE <<SubSeq(s, 1, i - 1)>> \o SplitLines(SubSeq(s, i + 1, Len(s)))

\* a line without the indentation of the template
Dedent(line) == IF line # <<>> /\ Head(line) = INDENT THEN Tail(line) ELSE line

IsLabelled(line) == Dedent(line) # <<>> /\ Head(Dedent(line)) \in Labels

\* the labelled lines of a prompt, in order, indentation removed
RECURSIVE LabelledOf(_)
LabelledOf(lines) ==
    IF lines = <<>> THEN <<>>
    ELSE (IF IsLabelled(Head(lines)) THEN <<Dedent(Head(lines))>> ELSE <<>>)
         \o LabelledOf(Tail(lines))

LabelledLines(p) == LabelledOf(SplitLines(p))

HasLineBreak(v) == \E i \in 1..Len(v) : v[i] = NL

\* no field of the request holds a line break
SingleLineFields(req) ==
    /\ ~HasLineBreak(req.word)
    /\ ~HasLineBreak(req.context)
    /\ ~HasLineBreak(req.poem_title)
    /\ ~HasLineBreak(req.poet_name)

\* whether an optional field calls for its line: when it is present, or,
\* read strictly, when it is present and not the empty string
Due(v, strict) == v # None /\ (strict => v # <<>>)

\* the labelled lines a request calls for
DueLines(req, strict) ==
    << <<LABEL_WORD>> \o req.word, <<LABEL_CONTEXT>> \o req.context >>
    \o (IF Due(req.poem_title, strict) THEN << <<LABEL_POEM>> \o req.poem_title >> ELSE <<>>)
    \o (IF Due(req.poet_name, strict) THEN << <<LABEL_POET>> \o req.poet_name >> ELSE <<>>)

\* the lines of the template that carry no field
TemplateLines == Len(SplitLines(PromptTemplate(<<>>)))

\* C7 as stated: the prompt's labelled lines are word, context, poem title,
\* poet name in that order, the two optional lines appearing exactly when the
\* field is present, and an omitted field adds no line.
C7_LineIffPresent ==
    \A c \in Calls :
       (pc[c] = "PromptBuilt" /\ request[c].word # <<>> /\ request[c].context # <<>>)
       => /\ LabelledLines(prompt[c]) = DueLines(request[c], FALSE)
          /\ Len(SplitLines(prompt[c]))
                = TemplateLines + Len(DueLines(request[c], FALSE))

\* C7 amended: for fields without line breaks, the optional lines appear
\* exactly when the field is present and not the empty string; an omitted or
\* empty field adds no line, and no labelled line is left without its value.
C7_LineIffNonEmpty ==
    \A c \in Calls :
       (pc[c] = "PromptBuilt" /\ SingleLineFields(request[c]))
       => /\ LabelledLines(prompt[c]) = DueLines(request[c], TRUE)
          /\ Len(SplitLines(prompt[c]))
                = TemplateLines + Len(DueLines(request[c], TRUE))
          /\ \A i \in 1..Len(SplitLines(prompt[c])) :
                Dedent(SplitLines(prompt[c])[i]) \notin {<<LABEL_POEM>>, <<LABEL_POET>>}

\* a prompt built with the poem title omitted and the poet name given
C7_Witness ==
    \E c \in Calls :
       /\ pc[c] = "PromptBuilt"
       /\ request[c].word = <<"a", "a">>
       /\ request[c].poem_title = None
       /\ request[c].poet_name = <<"a">>

====
